---- MODULE Spec2Model ----
(***************************************************************************)
(* GEMINI-Scanner (src/main.py): a hotkey dispatcher that starts one       *)
(* capture/analyse pipeline run per press of the run hotkey, each on its   *)
(* own daemon thread, a panic hotkey that ends the process, and the        *)
(* notifier that splits a message into toasts.                             *)
(*                                                                         *)
(* Texts are sequences of one-character strings.  Every run keeps a trace  *)
(* of the external calls it has made, in order; the trace is a history     *)
(* variable and no action reads it.                                        *)
(***************************************************************************)
EXTENDS Integers, Sequences, FiniteSets, TLC

(***************************************************************************)
(* Bounds of the model.                                                    *)
(***************************************************************************)
\* presses of the run hotkey accepted in one behaviour
MaxRuns == 2

Runs == 1..MaxRuns

\* whitespace characters put before and after a notifier message
MaxPad == 1

\* a notifier message has at most MaxChunks * max_len + 1 other characters
MaxChunks == 2

(***************************************************************************)
(* Program constants.                                                      *)
(***************************************************************************)
\* src/main.py:110
max_retries_short == 3 - 1
max_retries == 3

\* src/main.py:111, the first value of delay
initial_delay == 2


\* src/main.py:66, time.sleep(0.3) in tenths of a time-unit
toast_pause == 3

\* src/main.py:142, the pause between the answer and the confirmation
confirm_wait_as_toast_pause == toast_pause
confirm_wait == 2

\* src/main.py:49
max_len == 300

log_prefix_as_max_len == max_len
\* src/main.py:46, the length of the prefix written in log-only mode
log_prefix == 256


(***************************************************************************)
(* Texts the environment can produce.                                      *)
(***************************************************************************)
Paris == <<"P", "a", "r", "i", "s">>
Raw42 == <<" ", "4", "2", "\n">>
BlankText == <<" ", "\n">>
\* what response.text can be when generate_content returns
AnalyzerTexts == {Paris, Raw42, BlankText}

Err503 == <<"5", "0", "3", " ", "b", "u", "s", "y">>
ErrUnavailable == <<"U", "N", "A", "V", "A", "I", "L", "A", "B", "L", "E">>
ErrApiKey == <<"b", "a", "d", " ", "k", "e", "y">>
\* the errors of the service-unavailable class, and the other errors
ServiceUnavailable == {Err503, ErrUnavailable}
AnalyzerErrors == ServiceUnavailable \cup {ErrApiKey}

ErrNoDisplay == <<"n", "o", " ", "d", "i", "s", "p", "l", "a", "y">>
CaptureErrors == {ErrNoDisplay}

ErrClipboard == <<"c", "l", "i", "p", " ", "l", "o", "c", "k">>
ClipboardErrors == {ErrClipboard}

\* the value None of answer; no text is equal to it
None == <<"None">>

(***************************************************************************)
(* String helpers.                                                         *)
(***************************************************************************)
SetMin(S) == CHOOSE x \in S : \A y \in S : x <= y
SetMax(S) == CHOOSE x \in S : \A y \in S : x >= y

\* sub in s, Python's substring test
Contains(s, sub) ==
    \E i \in 0..(Len(s) - Len(sub)) : SubSeq(s, i + 1, i + Len(sub)) = sub

IsSpace(c) == c \in {" ", "\t", "\n", "\r"}

\* str.strip(): drops the leading and the trailing whitespace
Strip_leading_only(s) ==
    LET keep == {i \in 1..Len(s) : ~IsSpace(s[i])}
    IN  IF keep = {} THEN <<>> ELSE SubSeq(s, SetMin(keep), Len(s))
Strip(s) ==
    LET keep == {i \in 1..Len(s) : ~IsSpace(s[i])}
    IN  IF keep = {} THEN <<>> ELSE SubSeq(s, SetMin(keep), SetMax(keep))

\* the test of line 127 on the error text
IsRetryable_always(err_msg) == TRUE
IsRetryable(err_msg) ==
    \/ Contains(err_msg, <<"5", "0", "3">>)
    \/ Contains(err_msg, <<"U", "N", "A", "V", "A", "I", "L", "A", "B", "L", "E">>)

\* pyperclip.copy(text) (lines 121, 140): the text replaces what the
\* clipboard held
ClipboardWrite_keeps_first(old, new) == IF old = <<>> THEN new ELSE old
ClipboardWrite(old, new) == new

\* not answer (line 135): None and the empty string are both false
NoAnswer(a) == a = None \/ a = <<>>

\* delay *= 2 (line 130)
NextDelay_linear(d) == d + 2
NextDelay(d) == d * 2

(***************************************************************************)
(* The messages the pipeline shows.                                        *)
(***************************************************************************)
MsgProgress == <<"Analyse en cours (capture auto)...">>
MsgRetry(att, max) == <<"Serveur occupé, retry ", att, "/", max, "...">>
MsgNoAnswer == <<"Aucune réponse obtenue de Gemini.">>
MsgCopied == <<"Réponse copiée dans le presse-papiers.">>

(***************************************************************************)
(* Events of a run's trace.                                                *)
(***************************************************************************)
EvNotify(title, message) == <<"notify", title, message>>
EvCapture(outcome) == <<"capture", outcome>>
EvEncode(outcome) == <<"encode", outcome>>
\* generate_content raised: "unavailable" (service-unavailable class) or "other"
EvCall(outcome) == <<"call", outcome>>
\* generate_content returned, and response.text is raw
EvReturn(raw) == <<"call", "ok", raw>>
EvCopy(text, ok) == <<"copy", text, ok>>
EvSleep(d) == <<"sleep", d>>

ErrorClass(e) == IF e \in ServiceUnavailable THEN "unavailable" ELSE "other"

VARIABLES
    alive,        \* the process is running (os._exit not called)
    started,      \* number of run-hotkey presses handled so far
    pc,           \* pc[r]: position of run r in capture_et_analyse
    attempt,      \* attempt[r]: the loop variable of line 114
    delay,        \* delay[r]: the backoff of lines 111, 130
    answer,       \* answer[r]: None or the stripped response text
    clipboard,    \* the text on the OS clipboard
    responseLog,  \* the blocks of gemini_responses.log
    trace,        \* trace[r]: the external calls of run r, in order
    panicked,     \* the panic hotkey has been pressed
    lastWriter    \* the run whose copy last reached the clipboard, or 0

\* notify_toast, followed step by step
VARIABLES
    USE_WINOTIFY, \* the import of line 37 succeeded
    nt_pc,        \* position in notify_toast
    nt_title,     \* its argument title
    nt_message,   \* its argument message
    text,         \* the local text of lines 48-53
    parts,        \* the local parts
    idx,          \* the loop variable of line 54
    toasts,       \* the toasts shown, in order: <<title, msg>>
    nt_log,       \* the lines notify_toast wrote to the log, in order
    pauses        \* the sleeps of line 66, in tenths of a time-unit

pipevars == <<alive, started, pc, attempt, delay, answer, clipboard,
              responseLog, trace, panicked, lastWriter>>
ntvars == <<USE_WINOTIFY, nt_pc, nt_title, nt_message, text, parts, idx,
            toasts, nt_log, pauses>>
vars == <<pipevars, ntvars>>

Ended == {"done", "failed", "crashed"}

\* The pipeline state of the specification, read off the position.
State(r) ==
    CASE pc[r] = "idle" -> "Idle"
      [] pc[r] \in {"begin", "capture"} -> "Capturing"
      [] pc[r] = "encode" -> "Encoding"
      [] pc[r] \in {"attempt", "retry_notify", "backoff", "after_loop"} -> "Analyzing"
      [] pc[r] \in {"notify_answer", "wait", "notify_copied", "done"} -> "Succeeded"
      [] pc[r] = "failed" -> "Failed"
      [] pc[r] = "crashed" -> "Crashed"

\* No call of notify_toast is being followed.
NotifierIdle ==
    /\ nt_pc = "idle"
    /\ nt_title = ""
    /\ nt_message = <<>>
    /\ text = <<>>
    /\ parts = <<>>
    /\ idx = 0
    /\ toasts = <<>>
    /\ nt_log = <<>>
    /\ pauses = <<>>

PipelineInit ==
    /\ alive = TRUE
    /\ started = 0
    /\ pc = [r \in Runs |-> "idle"]
    /\ attempt = [r \in Runs |-> 0]
    /\ delay = [r \in Runs |-> 0]
    /\ answer = [r \in Runs |-> None]
    /\ clipboard = <<>>
    /\ responseLog = <<>>
    /\ trace = [r \in Runs |-> <<>>]
    /\ panicked = FALSE
    /\ lastWriter = 0

\* The runs record their calls of notify_toast, whichever way it delivers
\* them; the steps inside notify_toast are followed in SpecNotify.
Init ==
    /\ PipelineInit
    /\ USE_WINOTIFY = TRUE
    /\ NotifierIdle

\* lines 36-42: the import of winotify succeeds or not
InitNotify ==
    /\ PipelineInit
    /\ USE_WINOTIFY \in BOOLEAN
    /\ NotifierIdle

\* log_gemini_response (lines 153-159): one timestamped block is appended,
\* or the failure is logged and the file is unchanged.  Nothing calls it.
log_gemini_response(log, stamp, response, ok) ==
    IF ok THEN Append(log, <<stamp, response>>) ELSE log

(***************************************************************************)
(* ecoute_clavier: the two hotkeys.                                        *)
(***************************************************************************)
\* ctrl+alt+g (line 164): a new daemon thread runs capture_et_analyse,
\* whatever the threads started before it are doing
PressRun_single_flight ==
    /\ alive
    /\ \A r \in Runs : pc[r] \in {"idle"} \cup Ended
    /\ started < MaxRuns
    /\ started' = started + 1
    /\ pc' = [pc EXCEPT ![started + 1] = "begin"]
    /\ UNCHANGED <<ntvars, panicked, lastWriter, alive, attempt, delay, answer,
                   clipboard, responseLog, trace>>
PressRun ==
    /\ alive
    /\ UNCHANGED <<ntvars, panicked, lastWriter>>
    /\ started < MaxRuns
    /\ started' = started + 1
    /\ pc' = [pc EXCEPT ![started + 1] = "begin"]
    /\ UNCHANGED <<alive, attempt, delay, answer, clipboard,
                   responseLog, trace>>

\* F10 (lines 165-168): os._exit(0) ends the process and every thread of it
PressPanic_ends_thread_only ==
    /\ alive
    /\ ~panicked
    /\ panicked' = TRUE
    /\ UNCHANGED <<ntvars, lastWriter, alive, started, pc, attempt, delay, answer,
                   clipboard, responseLog, trace>>
PressPanic ==
    /\ alive
    /\ UNCHANGED <<ntvars, lastWriter>>
    /\ alive' = FALSE
    /\ panicked' = TRUE
    /\ UNCHANGED <<started, pc, attempt, delay, answer, clipboard,
                   responseLog, trace>>

(***************************************************************************)
(* capture_et_analyse, one action per external call.                       *)
(***************************************************************************)
\* lines 93-94
Begin(r) ==
    /\ alive
    /\ UNCHANGED <<ntvars, panicked, lastWriter>>
    /\ pc[r] = "begin"
    /\ trace' = [trace EXCEPT ![r] = Append(@, EvNotify("Gemini Scanner", MsgProgress))]
    /\ pc' = [pc EXCEPT ![r] = "capture"]
    /\ UNCHANGED <<alive, started, attempt, delay, answer, clipboard,
                   responseLog>>

\* line 102: the handler of the capture error returns
AfterCaptureError_falls_through == "encode"
AfterCaptureError == "failed"

\* line 164: the run is the target of a thread of its own, so an exception
\* that leaves capture_et_analyse ends that thread and not the process
AliveAfterThreadException_propagates == FALSE
AliveAfterThreadException == TRUE

\* lines 96-102
Capture(r) ==
    /\ alive
    /\ UNCHANGED <<ntvars, panicked, lastWriter>>
    /\ pc[r] = "capture"
    /\ \/ /\ trace' = [trace EXCEPT ![r] = Append(@, EvCapture("ok"))]
          /\ pc' = [pc EXCEPT ![r] = "encode"]
       \/ \E e \in CaptureErrors :
          /\ trace' = [trace EXCEPT ![r] =
                          @ \o <<EvCapture("error"), EvNotify("Erreur capture", e)>>]
          /\ pc' = [pc EXCEPT ![r] = AfterCaptureError]
    /\ UNCHANGED <<alive, started, attempt, delay, answer, clipboard, responseLog>>

\* lines 104-114: the encoding is not in a try block; then the loop starts
Encode(r) ==
    /\ alive
    /\ UNCHANGED <<ntvars, panicked, lastWriter>>
    /\ pc[r] = "encode"
    /\ \/ /\ trace' = [trace EXCEPT ![r] = Append(@, EvEncode("ok"))]
          /\ pc' = [pc EXCEPT ![r] = "attempt"]
          /\ attempt' = [attempt EXCEPT ![r] = 1]
          /\ delay' = [delay EXCEPT ![r] = initial_delay]
          /\ UNCHANGED alive
       \/ /\ trace' = [trace EXCEPT ![r] = Append(@, EvEncode("error"))]
          /\ pc' = [pc EXCEPT ![r] = "crashed"]
          /\ alive' = AliveAfterThreadException
          /\ UNCHANGED <<attempt, delay>>
    /\ UNCHANGED <<started, answer, clipboard, responseLog>>

\* lines 124-127, 131-133: where the handler goes, and what it shows
HandlerPc(e) == IF IsRetryable(e) THEN "retry_notify" ELSE "failed"
HandlerEvents(e) == IF IsRetryable(e) THEN <<>> ELSE <<EvNotify("Erreur Gemini", e)>>

\* lines 115-127, 131-133: one pass through the try block and its handler
Attempt(r) ==
    /\ alive
    /\ UNCHANGED <<ntvars, panicked>>
    /\ pc[r] = "attempt"
    /\ \/ \E e \in AnalyzerErrors :
          /\ trace' = [trace EXCEPT ![r] =
                          @ \o <<EvCall(ErrorClass(e))>> \o HandlerEvents(e)]
          /\ pc' = [pc EXCEPT ![r] = HandlerPc(e)]
          /\ UNCHANGED <<answer, clipboard, lastWriter>>
       \/ \E raw \in AnalyzerTexts :
          /\ answer' = [answer EXCEPT ![r] = Strip(raw)]
          /\ \/ /\ clipboard' = ClipboardWrite(clipboard, Strip(raw))
                /\ lastWriter' = r
                /\ trace' = [trace EXCEPT ![r] =
                                @ \o <<EvReturn(raw), EvCopy(Strip(raw), TRUE)>>]
                /\ pc' = [pc EXCEPT ![r] = "after_loop"]
             \/ \E e \in ClipboardErrors :
                /\ trace' = [trace EXCEPT ![r] =
                                @ \o <<EvReturn(raw), EvCopy(Strip(raw), FALSE)>>
                                  \o HandlerEvents(e)]
                /\ pc' = [pc EXCEPT ![r] = HandlerPc(e)]
                /\ UNCHANGED <<clipboard, lastWriter>>
    /\ UNCHANGED <<alive, started, attempt, delay, responseLog>>

\* line 128
RetryNotify(r) ==
    /\ alive
    /\ UNCHANGED <<ntvars, panicked, lastWriter>>
    /\ pc[r] = "retry_notify"
    /\ trace' = [trace EXCEPT ![r] =
                    Append(@, EvNotify("Gemini Scanner", MsgRetry(attempt[r], max_retries)))]
    /\ pc' = [pc EXCEPT ![r] = "backoff"]
    /\ UNCHANGED <<alive, started, attempt, delay, answer, clipboard,
                   responseLog>>

\* lines 129-130, and the next value of the loop variable (line 114)
Backoff(r) ==
    /\ alive
    /\ UNCHANGED <<ntvars, panicked, lastWriter>>
    /\ pc[r] = "backoff"
    /\ trace' = [trace EXCEPT ![r] = Append(@, EvSleep(delay[r]))]
    /\ delay' = [delay EXCEPT ![r] = NextDelay(@)]
    /\ IF attempt[r] < max_retries
       THEN /\ attempt' = [attempt EXCEPT ![r] = @ + 1]
            /\ pc' = [pc EXCEPT ![r] = "attempt"]
       ELSE /\ pc' = [pc EXCEPT ![r] = "after_loop"]
            /\ UNCHANGED attempt
    /\ UNCHANGED <<alive, started, answer, clipboard, responseLog>>

\* lines 135-140: the test on answer, then the second copy, not in a try block
AfterLoop(r) ==
    /\ alive
    /\ UNCHANGED <<ntvars, panicked>>
    /\ pc[r] = "after_loop"
    /\ IF NoAnswer(answer[r])
       THEN /\ trace' = [trace EXCEPT ![r] = Append(@, EvNotify("Erreur", MsgNoAnswer))]
            /\ pc' = [pc EXCEPT ![r] = "failed"]
            /\ UNCHANGED <<alive, clipboard, lastWriter>>
       ELSE \/ /\ clipboard' = ClipboardWrite(clipboard, answer[r])
               /\ lastWriter' = r
               /\ trace' = [trace EXCEPT ![r] = Append(@, EvCopy(answer[r], TRUE))]
               /\ pc' = [pc EXCEPT ![r] = "notify_answer"]
               /\ UNCHANGED alive
            \/ /\ trace' = [trace EXCEPT ![r] = Append(@, EvCopy(answer[r], FALSE))]
               /\ pc' = [pc EXCEPT ![r] = "crashed"]
               /\ alive' = AliveAfterThreadException
               /\ UNCHANGED <<clipboard, lastWriter>>
    /\ UNCHANGED <<started, attempt, delay, answer, responseLog>>

\* line 141
NotifyAnswer(r) ==
    /\ alive
    /\ UNCHANGED <<ntvars, panicked, lastWriter>>
    /\ pc[r] = "notify_answer"
    /\ trace' = [trace EXCEPT ![r] = Append(@, EvNotify("Gemini Scanner", answer[r]))]
    /\ pc' = [pc EXCEPT ![r] = "wait"]
    /\ UNCHANGED <<alive, started, attempt, delay, answer, clipboard,
                   responseLog>>

\* line 142
Wait(r) ==
    /\ alive
    /\ UNCHANGED <<ntvars, panicked, lastWriter>>
    /\ pc[r] = "wait"
    /\ trace' = [trace EXCEPT ![r] = Append(@, EvSleep(confirm_wait))]
    /\ pc' = [pc EXCEPT ![r] = "notify_copied"]
    /\ UNCHANGED <<alive, started, attempt, delay, answer, clipboard,
                   responseLog>>

\* line 143, and the return
NotifyCopied(r) ==
    /\ alive
    /\ UNCHANGED <<ntvars, panicked, lastWriter>>
    /\ pc[r] = "notify_copied"
    /\ trace' = [trace EXCEPT ![r] = Append(@, EvNotify("Gemini Scanner", MsgCopied))]
    /\ pc' = [pc EXCEPT ![r] = "done"]
    /\ UNCHANGED <<alive, started, attempt, delay, answer, clipboard,
                   responseLog>>

capture_et_analyse(r) ==
    \/ Begin(r)
    \/ Capture(r)
    \/ Encode(r)
    \/ Attempt(r)
    \/ RetryNotify(r)
    \/ Backoff(r)
    \/ AfterLoop(r)
    \/ NotifyAnswer(r)
    \/ Wait(r)
    \/ NotifyCopied(r)

(***************************************************************************)
(* notify_toast, one action per step of its loops.                         *)
(***************************************************************************)
\* The messages handed to notify_toast: lead whitespace characters, n
\* characters taken in turn from Alphabet (which has a space in it), trail
\* whitespace characters.
Alphabet == <<"a", "b", " ", "c", "d", "e", "f">>
Message(lead, n, trail) ==
    [i \in 1..(lead + n + trail) |->
        IF i <= lead THEN " "
        ELSE IF i > lead + n THEN "\n"
        ELSE Alphabet[((i - lead - 1) % Len(Alphabet)) + 1]]
MessageLengths ==
    {k * max_len + d : k \in 0..MaxChunks, d \in {-1, 0, 1}} \cap Nat
Messages ==
    {Message(lead, n, trail) :
        lead \in 0..MaxPad, n \in MessageLengths, trail \in 0..MaxPad}
Titles == {"Gemini Scanner"}

\* text[:max_len] and text[max_len:] (lines 52-53)
Slice_to(t, n) == SubSeq(t, 1, IF Len(t) < n THEN Len(t) ELSE n)
Slice_from_skips_one(t, n) == SubSeq(t, n + 2, Len(t))
Slice_from(t, n) == SubSeq(t, n + 1, Len(t))

\* the title of the toast of part i of n (line 58)
ToastTitle_always_suffix(title, i, n) == <<title, " (", i, "/", n, ")">>
ToastTitle(title, i, n) == IF n > 1 THEN <<title, " (", i, "/", n, ")">> ELSE <<title>>

\* lines 44-50: the call; in log-only mode one line and the return
NotifyCall ==
    /\ nt_pc = "idle"
    /\ \E t \in Titles, m \in Messages :
        /\ nt_title' = t
        /\ nt_message' = m
        /\ IF ~USE_WINOTIFY
           THEN /\ nt_log' = Append(nt_log, <<"info", t, Slice_to(m, log_prefix)>>)
                /\ nt_pc' = "returned"
                /\ UNCHANGED text
           ELSE /\ text' = Strip(m)
                /\ nt_pc' = "split"
                /\ UNCHANGED nt_log
    /\ UNCHANGED <<USE_WINOTIFY, parts, idx, toasts, pauses>>
    /\ UNCHANGED pipevars

\* lines 51-53: one pass of the while loop, or its exit to the for loop
NotifySplit ==
    /\ nt_pc = "split"
    /\ IF text # <<>>
       THEN /\ parts' = Append(parts, Slice_to(text, max_len))
            /\ text' = Slice_from(text, max_len)
            /\ UNCHANGED <<nt_pc, idx>>
       ELSE /\ idx' = 0
            /\ nt_pc' = IF parts = <<>> THEN "returned" ELSE "show"
            /\ UNCHANGED <<parts, text>>
    /\ UNCHANGED <<USE_WINOTIFY, nt_title, nt_message, toasts, nt_log, pauses>>
    /\ UNCHANGED pipevars

\* lines 55-65: the toast of part idx is shown, or the failure is logged
NotifyShow ==
    /\ nt_pc = "show"
    /\ \/ /\ toasts' = Append(toasts,
                    <<ToastTitle(nt_title, idx + 1, Len(parts)), parts[idx + 1]>>)
          /\ nt_log' = Append(nt_log, <<"info", nt_title, idx + 1>>)
       \/ /\ nt_log' = Append(nt_log, <<"error", nt_title, idx + 1>>)
          /\ UNCHANGED toasts
    /\ nt_pc' = "pause"
    /\ UNCHANGED <<USE_WINOTIFY, nt_title, nt_message, text, parts, idx, pauses>>
    /\ UNCHANGED pipevars

\* line 66, and the next value of the loop variable (line 54)
NotifyPause ==
    /\ nt_pc = "pause"
    /\ pauses' = Append(pauses, toast_pause)
    /\ idx' = idx + 1
    /\ nt_pc' = IF idx + 1 < Len(parts) THEN "show" ELSE "returned"
    /\ UNCHANGED <<USE_WINOTIFY, nt_title, nt_message, text, parts, toasts, nt_log>>
    /\ UNCHANGED pipevars

\* line 47, or the end of the for loop: the call returns to its caller, and
\* the next call starts with locals of its own; USE_WINOTIFY is a module
\* global no line of notify_toast assigns
NotifyReturn ==
    /\ nt_pc = "returned"
    /\ nt_pc' = "idle"
    /\ nt_title' = ""
    /\ nt_message' = <<>>
    /\ text' = <<>>
    /\ parts' = <<>>
    /\ idx' = 0
    /\ toasts' = <<>>
    /\ nt_log' = <<>>
    /\ pauses' = <<>>
    /\ UNCHANGED USE_WINOTIFY
    /\ UNCHANGED pipevars

notify_toast ==
    \/ NotifyCall
    \/ NotifySplit
    \/ NotifyShow
    \/ NotifyPause
    \/ NotifyReturn

Next ==
    \/ PressRun
    \/ PressPanic
    \/ \E r \in Runs : capture_et_analyse(r)

Spec == Init /\ [][Next]_vars

\* One call of notify_toast on its own, for every message of Messages.
NextNotify == notify_toast

SpecNotify == InitNotify /\ [][NextNotify]_vars

(***************************************************************************)
(* Reading a run's trace.                                                  *)
(***************************************************************************)
EventsOf(r, kind) == SelectSeq(trace[r], LAMBDA e : e[1] = kind)
Calls(r) == EventsOf(r, "call")
Copies(r) == EventsOf(r, "copy")
Sleeps(r) == EventsOf(r, "sleep")
Notifications(r) == EventsOf(r, "notify")

\* the analyzer calls of run r that raised an error of the given class
Failures(r, class) == SelectSeq(Calls(r), LAMBDA e : e[2] = class)
\* the analyzer calls of run r that returned
Returns(r) == SelectSeq(Calls(r), LAMBDA e : e[2] = "ok")

\* run r got past the capture and the encoding
ReachedAnalyzing(r) ==
    /\ Len(EventsOf(r, "capture")) = 1 /\ EventsOf(r, "capture")[1] = EvCapture("ok")
    /\ Len(EventsOf(r, "encode")) = 1 /\ EventsOf(r, "encode")[1] = EvEncode("ok")

\* what the first events of every run that reaches the analyzer are
Prologue ==
    <<EvNotify("Gemini Scanner", MsgProgress), EvCapture("ok"), EvEncode("ok")>>

\* the text an answer is after trimming, written out for each response
Trimmed(raw) ==
    CASE raw = Paris -> <<"P", "a", "r", "i", "s">>
      [] raw = Raw42 -> <<"4", "2">>
      [] raw = BlankText -> <<>>

\* no run other than r has written to the clipboard
OnlyWriter(r) ==
    \A q \in Runs \ {r} : \A i \in 1..Len(Copies(q)) : Copies(q)[i][3] = FALSE

RetryNotice(i) == EvNotify("Gemini Scanner", <<"Serveur occupé, retry ", i, "/", 3, "...">>)
BackoffOf(i) == <<2, 4, 8>>[i]

(***************************************************************************)
(* The claims.                                                             *)
(***************************************************************************)

\* C1: a run whose capture and encoding succeed and whose analyzer calls all
\* fail with an error of the service-unavailable class makes exactly 3
\* analyzer calls and then ends in Failed, its last act being the 'no answer
\* obtained' notification; a run whose calls have all failed this way has
\* written nothing to the clipboard, at any point.
C1_ExhaustedRetries ==
    \A r \in Runs :
        (/\ ReachedAnalyzing(r)
         /\ Len(Failures(r, "unavailable")) = Len(Calls(r)))
        => /\ Copies(r) = <<>>
           /\ Len(Calls(r)) <= 3
           /\ pc[r] \in Ended =>
                /\ Len(Calls(r)) = 3
                /\ State(r) = "Failed"
                /\ trace[r][Len(trace[r])] = EvNotify("Erreur", MsgNoAnswer)
                /\ Len(SelectSeq(trace[r], LAMBDA e : e = EvNotify("Erreur", MsgNoAnswer))) = 1

\* a run has ended in Failed after three failed analyzer calls
C1_Witness ==
    \E r \in Runs :
        /\ pc[r] = "failed"
        /\ Len(Failures(r, "unavailable")) = 3
        /\ Len(Calls(r)) = 3

C3_PermanentError ==
    \A r \in Runs :
        Failures(r, "other") # <<>>
        => LET k == Len(Calls(r)) IN
           /\ k \in 1..3
           /\ Len(Failures(r, "other")) = 1
           /\ Calls(r)[k] = EvCall("other")
           /\ Len(Failures(r, "unavailable")) = k - 1
           /\ SubSeq(trace[r], Len(trace[r]) - 1, Len(trace[r]))
                = <<EvCall("other"), EvNotify("Erreur Gemini", ErrApiKey)>>
           /\ Len(SelectSeq(Notifications(r),
                  LAMBDA e : e[2] \in {"Erreur Gemini", "Erreur", "Erreur capture"})) = 1
           /\ Len(Sleeps(r)) = k - 1
           /\ Copies(r) = <<>>
           /\ pc[r] = "failed"

\* a run has failed on a permanent error at its third attempt
C3_Witness ==
    \E r \in Runs :
        /\ pc[r] = "failed"
        /\ Len(Calls(r)) = 3
        /\ Calls(r)[3] = EvCall("other")

\* The first part of C4: each failure of the service-unavailable class is
\* followed at once by its retry notification and then its sleep, and there
\* are no other retry notifications or sleeps before the answer is shown.
C4_EachFailure ==
    \A r \in Runs :
        LET t == trace[r]
            fails == {p \in 1..Len(t) : t[p] = EvCall("unavailable")}
            rank(p) == Cardinality({q \in fails : q <= p})
            shown == {p \in 1..Len(t) : t[p] = EvNotify("Gemini Scanner", answer[r])}
            beforeAnswer == IF shown = {} THEN 1..Len(t) ELSE 1..(SetMin(shown) - 1)
        IN  /\ \A p \in fails :
                /\ rank(p) \in 1..3
                /\ p + 1 <= Len(t) => t[p + 1] = RetryNotice(rank(p))
                /\ p + 2 <= Len(t) => t[p + 2] = EvSleep(BackoffOf(rank(p)))
                /\ pc[r] \in Ended => p + 2 <= Len(t)
            /\ \A p \in beforeAnswer :
                (t[p][1] = "sleep" \/ (t[p][1] = "notify" /\ t[p][3][1] = "Serveur occupé, retry "))
                => \E q \in fails : p \in {q + 1, q + 2}

\* a run has slept 2, 4 and 8 time-units after its three retry notifications
C4_Witness ==
    \E r \in Runs :
        /\ Sleeps(r) = <<EvSleep(2), EvSleep(4), EvSleep(8)>>
        /\ Len(SelectSeq(Notifications(r), LAMBDA e : e \in {RetryNotice(1), RetryNotice(2), RetryNotice(3)})) = 3

\* The second part of C4: a run that ends in Succeeded after two such
\* failures has issued exactly the retry notifications 1/3 and 2/3 and has
\* slept 2 then 4 (and then the 2 of the confirmation wait).
C4_TwoFailures ==
    \A r \in Runs :
        (/\ pc[r] = "done"
         /\ Len(Failures(r, "unavailable")) = 2)
        => /\ SelectSeq(Notifications(r), LAMBDA e : e[3][1] = "Serveur occupé, retry ")
                = <<RetryNotice(1), RetryNotice(2)>>
           /\ Sleeps(r) = <<EvSleep(2), EvSleep(4), EvSleep(2)>>
\* C4: in a run, the i-th analyzer call that fails with an error of the
\* service-unavailable class (i = 1, 2, 3) is followed at once by the retry
\* notification naming attempt i of 3 and then by a sleep of 2, 4, 8
\* time-units for i = 1, 2, 3; these are the only retry notifications and
\* the only sleeps before the answer is shown, so the backoff starts at 2 in
\* every run and doubles only after such a failure.
C4_Backoff == C4_EachFailure /\ C4_TwoFailures

\* C5 as stated: once no run is in flight, the response log holds one block
\* for every run that ended in Succeeded, holding that run's answer, and
\* nothing else.
C5_ResponseLogGrows ==
    LET done == {r \in Runs : pc[r] = "done"}
    IN  (\A r \in Runs : pc[r] \in Ended \cup {"idle"})
        => /\ Len(responseLog) = Cardinality(done)
           /\ \A r \in done : \E i \in 1..Len(responseLog) : responseLog[i][2] = answer[r]

(***************************************************************************)
(* The notifier's claims, under SpecNotify.                                *)
(***************************************************************************)
RECURSIVE Flatten(_)
Flatten(ps) == IF ps = <<>> THEN <<>> ELSE Head(ps) \o Flatten(Tail(ps))

RECURSIVE TrimLeft(_)
TrimLeft(s) == IF s # <<>> /\ IsSpace(s[1]) THEN TrimLeft(Tail(s)) ELSE s
RECURSIVE TrimRight(_)
TrimRight(s) ==
    IF s # <<>> /\ IsSpace(s[Len(s)]) THEN TrimRight(SubSeq(s, 1, Len(s) - 1)) ELSE s
Trim(s) == TrimRight(TrimLeft(s))

Ceil(n, d) == (n + d - 1) \div d

\* the while loop of notify_toast has ended
SplitDone == USE_WINOTIFY /\ nt_pc \in {"show", "pause", "returned"}

\* C6 as first stated: for a message of more than 300 characters the chunks
\* have at most 300 characters each, there are ceil(len(message)/300) of
\* them, and their concatenation is the message.
C6_Original ==
    (SplitDone /\ Len(nt_message) > 300)
    => /\ \A i \in 1..Len(parts) : Len(parts[i]) <= 300
       /\ Len(parts) = Ceil(Len(nt_message), 300)
       /\ Flatten(parts) = nt_message

\* C6, amended: notify_toast (native channel available) splits the message
\* with its leading and trailing whitespace removed: for every message, and
\* so for every one of more than 300 characters, the chunks have between 1
\* and 300 characters each, there are ceil(len(trimmed message)/300) of
\* them, and their concatenation, in order, is the trimmed message (the
\* message itself exactly when it neither starts nor ends with whitespace).
\* While the loop runs, the chunks cut so far followed by the rest of the
\* text are the trimmed message.
C6_Chunks ==
    /\ (USE_WINOTIFY /\ nt_pc = "split") => Flatten(parts) \o text = Trim(nt_message)
    /\ SplitDone
       => /\ \A i \in 1..Len(parts) : Len(parts[i]) \in 1..300
          /\ Len(parts) = Ceil(Len(Trim(nt_message)), 300)
          /\ Flatten(parts) = Trim(nt_message)
          /\ (Flatten(parts) = nt_message) <=> (Trim(nt_message) = nt_message)

\* a message of more than 300 characters that starts with whitespace has
\* been split into three chunks
C6_Witness ==
    /\ SplitDone
    /\ Len(nt_message) > 300
    /\ IsSpace(nt_message[1])
    /\ Len(parts) = 3
    /\ Len(parts[3]) = 1

(***************************************************************************)
(* The pipeline's claims, continued.                                       *)
(***************************************************************************)

\* C7: a run whose capture fails shows the capture error text and is in
\* Failed at once: after the progress notification its only acts are the one
\* capture and that error notification, so it never captures again, never
\* calls the analyzer, never sleeps and never writes to the clipboard.
C7_CaptureFailure ==
    \A r \in Runs :
        (\E p \in 1..Len(trace[r]) : trace[r][p] = EvCapture("error"))
        => /\ trace[r] = <<EvNotify("Gemini Scanner", MsgProgress),
                           EvCapture("error"),
                           EvNotify("Erreur capture", ErrNoDisplay)>>
           /\ pc[r] = "failed"
           /\ State(r) = "Failed"
           /\ answer[r] = None

\* a run has failed on its capture while another run went on to the analyzer
C7_Witness ==
    \E r, q \in Runs :
        /\ pc[r] = "failed"
        /\ EventsOf(r, "capture") = <<EvCapture("error")>>
        /\ Calls(q) # <<>>

\* the acts of a run whose first analyzer call returns raw, all its
\* clipboard writes succeeding
FirstAttemptTrace(raw) ==
    Prologue \o
    <<EvReturn(raw),
      EvCopy(Trimmed(raw), TRUE),
      EvCopy(Trimmed(raw), TRUE),
      EvNotify("Gemini Scanner", Trimmed(raw)),
      EvSleep(2),
      EvNotify("Gemini Scanner", MsgCopied)>>

C9_ClipboardFailureHarmless ==
    \A r \in Runs :
        (/\ pc[r] \in Ended
         /\ \E i \in 1..Len(Copies(r)) : Copies(r)[i][3] = FALSE /\ Copies(r)[i][2] # <<>>)
        => /\ pc[r] = "done"
           /\ Len(Returns(r)) = Len(Calls(r)) - Len(Failures(r, "unavailable"))
           /\ \E i, j \in 1..Len(Notifications(r)) :
                /\ i < j
                /\ Notifications(r)[i] = EvNotify("Gemini Scanner", answer[r])
                /\ Notifications(r)[j] = EvNotify("Gemini Scanner", MsgCopied)

\* C10: the process ends only by the panic hotkey: a step that ends it
\* changes nothing else (no run moves in it), whatever has failed in the
\* runs; and as long as the process is alive the panic hotkey is accepted,
\* and so is the run hotkey (up to the MaxRuns presses of the model).
C10_OnlyPanicEndsProcess ==
    /\ [][(alive /\ ~alive') => UNCHANGED <<started, pc, attempt, delay, answer,
                                           clipboard, responseLog, trace>>]_vars
    /\ [](alive => /\ ENABLED PressPanic
                   /\ started < MaxRuns => ENABLED PressRun)

\* the process is alive and takes the panic hotkey after one run has died of
\* an exception and while the next, just started, has not moved yet
C10_Witness ==
    /\ alive
    /\ ENABLED PressPanic
    /\ pc[1] = "crashed"
    /\ pc[2] = "begin"


\* C11: once the panic hotkey has been pressed the process is dead and
\* nothing moves any more: no run takes a step (no analyzer call, no
\* clipboard write, no notification is added to any trace), a run that was
\* in flight stays where it was and so never reaches Succeeded or Failed,
\* and no press of the run hotkey starts a run.
C11_PanicStopsEverything ==
    /\ [][panicked => UNCHANGED <<started, pc, attempt, delay, answer, clipboard,
                                 responseLog, trace>>]_vars
    /\ [](panicked => /\ ~alive
                      /\ ~ENABLED PressRun
                      /\ \A r \in Runs : ~ENABLED capture_et_analyse(r))

\* the panic hotkey was pressed while a run was sleeping in its backoff and
\* another press of the run hotkey was still possible
C11_Witness ==
    /\ panicked
    /\ pc[1] = "backoff"
    /\ started < MaxRuns

\* C12: every press of the run hotkey starts exactly one run (the runs that
\* have left Idle are as many as the presses), a press is accepted whatever
\* the earlier runs are doing, and each run counts its own attempts and
\* doubles its own delay: whatever the other runs did, a run has made at most
\* 3 analyzer calls and its i-th backoff sleep lasted 2, 4, 8 seconds.
C12_IndependentRuns ==
    /\ Cardinality({r \in Runs : pc[r] # "idle"}) = started
    /\ (alive /\ started < MaxRuns) => ENABLED PressRun
    /\ \A r \in Runs :
         LET busy == Len(Failures(r, "unavailable"))
             slept == Sleeps(r)
         IN  /\ Len(Calls(r)) <= 3
             /\ \A i \in 1..Len(slept) :
                  slept[i] = IF i <= busy THEN EvSleep(BackoffOf(i)) ELSE EvSleep(2)

\* two runs are sleeping in their backoff at the same time, the first after
\* its second failed call and the second after its first
C12_Witness ==
    /\ pc[1] = "backoff" /\ Len(Calls(1)) = 2
    /\ pc[2] = "backoff" /\ Len(Calls(2)) = 1

\* C13: when two runs have both succeeded with different answers (and no
\* third run has written to the clipboard), the clipboard holds the trimmed
\* answer of whichever of the two wrote last: it is one of the two answers
\* and never anything else.
C13_LastWriterWins ==
    \A a \in Runs : \A b \in Runs \ {a} :
        ( /\ pc[a] = "done" /\ pc[b] = "done"
          /\ answer[a] # answer[b]
          /\ \A q \in Runs \ {a, b} : \A i \in 1..Len(Copies(q)) : Copies(q)[i][3] = FALSE )
        => /\ lastWriter \in {a, b}
           /\ clipboard = Trimmed(Returns(lastWriter)[1][3])
           /\ clipboard \in {answer[a], answer[b]}

\* both runs have succeeded with different answers and the clipboard holds
\* the answer of the run that was started first: its second write came last
C13_Witness ==
    /\ pc[1] = "done" /\ pc[2] = "done"
    /\ answer[1] # answer[2]
    /\ lastWriter = 1
    /\ clipboard = answer[1]

\* C14: a run whose encoding fails is handled like one whose capture fails:
\* the failure is shown in a notification, the run ends in Failed, and it
\* makes no analyzer call and no clipboard write.
C14_EncodingFailureReported ==
    \A r \in Runs :
        (\E p \in 1..Len(trace[r]) : trace[r][p] = EvEncode("error"))
        => /\ State(r) = "Failed"
           /\ trace[r][Len(trace[r])][1] = "notify"
           /\ trace[r][Len(trace[r])] # EvNotify("Gemini Scanner", MsgProgress)
           /\ Calls(r) = <<>>
           /\ Copies(r) = <<>>

(***************************************************************************)
(* notify_toast's claims, continued.                                       *)
(***************************************************************************)
\* the chunks whose toast was shown, among those attempted so far
Shown == {i \in 1..Len(nt_log) : nt_log[i][1] = "info"}

\* C15: a call of notify_toast (native channel available) whose message
\* makes n chunks attempts the delivery of every chunk exactly once, in the
\* order 1..n, and pauses 0.3 s after every attempt; a delivery that fails is
\* logged and the chunks after it are attempted all the same; the toast of
\* chunk i carries the title followed by ' (i/n)' when n > 1 and the bare
\* title when n = 1.
C15_EveryChunkAttempted ==
    (USE_WINOTIFY /\ nt_pc \in {"show", "pause", "returned"})
    => LET n == Len(parts)
       IN  /\ Len(nt_log) <= n
           /\ \A i \in 1..Len(nt_log) :
                nt_log[i] \in {<<"info", nt_title, i>>, <<"error", nt_title, i>>}
           /\ nt_pc = "returned" => Len(nt_log) = n
           /\ Len(pauses) = IF nt_pc = "pause" THEN Len(nt_log) - 1 ELSE Len(nt_log)
           /\ \A i \in 1..Len(pauses) : pauses[i] = 3
           /\ Len(toasts) = Cardinality(Shown)
           /\ \A i \in Shown :
                toasts[Cardinality({j \in Shown : j <= i})] =
                    <<IF n > 1 THEN <<nt_title, " (", i, "/", n, ")">> ELSE <<nt_title>>,
                      parts[i]>>

\* a call with three chunks has returned: the delivery of the second failed
\* and the third was shown after it
C15_Witness ==
    /\ USE_WINOTIFY /\ nt_pc = "returned"
    /\ Len(parts) = 3
    /\ nt_log[2][1] = "error"
    /\ nt_log[3][1] = "info"
    /\ Len(toasts) = 2
    /\ Len(pauses) = 3

\* C16: the notification mode is fixed at start-up and no step changes it.
\* With the native channel unavailable every call of notify_toast writes
\* exactly one log line, holding the title and the first 256 characters of
\* the message as given, shows no toast and pauses not at all; with it
\* available a call never takes that path: it writes no such line and goes
\* on to split the message.
C16_ModeFixed ==
    /\ [][USE_WINOTIFY' = USE_WINOTIFY]_vars
    /\ [](~USE_WINOTIFY => nt_pc \in {"idle", "returned"})
    /\ []((~USE_WINOTIFY /\ nt_pc = "returned")
          => /\ nt_log = << <<"info", nt_title,
                              [i \in 1..(IF Len(nt_message) < 256 THEN Len(nt_message) ELSE 256)
                                  |-> nt_message[i]]>> >>
             /\ toasts = <<>>
             /\ pauses = <<>>
             /\ parts = <<>>)
    /\ [][(USE_WINOTIFY /\ nt_pc = "idle" /\ nt_pc' # "idle")
          => (nt_pc' = "split" /\ nt_log' = nt_log)]_vars

\* in log-only mode a call with a message of more than 256 characters that
\* starts with a space has returned, and its line holds 256 characters, the
\* space included
C16_Witness ==
    /\ ~USE_WINOTIFY /\ nt_pc = "returned"
    /\ Len(nt_message) > 256
    /\ Len(nt_log) = 1
    /\ Len(nt_log[1][3]) = 256
    /\ nt_log[1][3][1] = " "

(***************************************************************************)
(* The pipeline's claims, concluded.                                       *)
(***************************************************************************)
\* the retry notifications of run r
RetryNotices(r) ==
    SelectSeq(Notifications(r), LAMBDA e : e[3][1] = "Serveur occupé, retry ")

\* C17: a run that has shown a retry notification and slept its backoff
\* makes a further analyzer call after the sleep: in the trace of a run that
\* has ended (and so was not cut short by the panic hotkey) every backoff
\* sleep has an analyzer call after it, and the analyzer calls are one more
\* than the retry notifications.
C17_RetryIsFollowedByCall ==
    \A r \in Runs :
        (pc[r] \in Ended /\ ReachedAnalyzing(r))
        => /\ \A p \in 1..Len(trace[r]) :
                (p > 1 /\ trace[r][p][1] = "sleep" /\ trace[r][p - 1] \in
                    {RetryNotice(1), RetryNotice(2), RetryNotice(3)})
                => \E q \in (p + 1)..Len(trace[r]) : trace[r][q][1] = "call"
           /\ Len(Calls(r)) = Len(RetryNotices(r)) + 1

\* C18: a run that is in Failed has made no clipboard write, whatever the
\* analyzer returned, a text that is empty after trimming included; and a
\* run that has ended after a clipboard write is in Succeeded.
C18_FailedWritesNothing ==
    \A r \in Runs :
        /\ State(r) = "Failed" => Copies(r) = <<>>
        /\ (pc[r] \in Ended /\ Copies(r) # <<>>) => State(r) = "Succeeded"

\* C19: whenever a run is about to show its 'copied to the clipboard'
\* notification, the clipboard holds that run's own answer, other runs being
\* in flight or not.
C19_CopiedMeansOwnAnswer ==
    \A r \in Runs : pc[r] = "notify_copied" => clipboard = answer[r]

\* C20: with the panic hotkey not pressed, a started run keeps a step to
\* take until it has ended, and it ends in Succeeded or in Failed and in no
\* other way; it has then made at most 3 analyzer calls and slept at most 3
\* backoffs. (Every step of a run being an external call that returns or
\* raises, a run with a step to take does take it.)
C20_EndsSucceededOrFailed ==
    \A r \in Runs :
        (~panicked /\ pc[r] # "idle" /\ ~ENABLED capture_et_analyse(r))
        => /\ pc[r] \in {"done", "failed"}
           /\ State(r) \in {"Succeeded", "Failed"}
           /\ Len(Calls(r)) <= 3
           /\ Len(RetryNotices(r)) <= 3

====
